---- MODULE Spec2Model ----
(***************************************************************************)
(* A model of the skipper tee (shadow traffic) filter, filters/tee/tee.go: *)
(* filter construction (CreateFilter), the request clone (cloneRequest)    *)
(* and the stream tee (teeTie.Read over an io.Pipe) with the detached      *)
(* mirror task started by tee.Request.                                     *)
(*                                                                         *)
(* Go strings that the code parses (base URL, pattern, replacement, path)  *)
(* are sequences of one-character strings, so that url.Parse,              *)
(* regexp.Compile and Regexp.ReplaceAllString are computed character by    *)
(* character.  Errors are named by strings, "nil" being Go's nil error.    *)
(*                                                                         *)
(* With it, the proxy context of a request (newContext, applyRoute, Serve, *)
(* setResponse, ensureDefaultResponse and the snapshots of the original    *)
(* request and response), and the close-idle-conns-period flag of          *)
(* cmd/skipper/main.go (parseDurationFlag and the option main builds).     *)
(***************************************************************************)
EXTENDS Integers, Sequences, FiniteSets, TLC

VARIABLES
    config,        \* the []interface{} handed to CreateFilter
    filter,        \* the *tee CreateFilter returned (NoFilter: none)
    createErr,     \* the error CreateFilter returned ("nil": none, or not called)
    req,           \* the original *http.Request held by the filter context
    clone,         \* the copyOfRequest built by cloneRequest (NoClone: none yet)
    urls,          \* heap of url.URL objects, a request's url field is an index
    hdrs,          \* heap of http.Header maps, a request's header field is an index
    src,           \* bytes the original body (teeTie.r) has not yet delivered
    pipe,          \* the io.Pipe between teeTie.w and clone.Body
    pc,            \* where the primary consumer of req.Body stands
    cur,           \* the running teeTie.Read: what tt.r.Read and tt.w.Write returned
    ret,           \* what the last finished teeTie.Read returned (NoRet: in a call)
    primaryBytes,  \* all bytes teeTie.Read has returned to the primary consumer
    written,       \* all bytes teeTie.Read has handed to tt.w.Write
    mirrorBytes,   \* all bytes the mirror task has read from clone.Body
    mstate,        \* the mirror goroutine: "none", "running", "closed"
    mirrorSaw,     \* the error the mirror's read of clone.Body ended with
    ctxs,          \* the proxy contexts, each a record of the fields of context
    resps,         \* heap of http.Response objects, a response is an index (0: nil)
    arrays,        \* heap of the backing arrays of TransferEncoding slices
    reqTE,         \* the TransferEncoding slice of the live request req
    params,        \* heap of path parameter maps, a map is an index (0: nil)
    newArgs,       \* what newContext was called with (NoArgs: not yet called)
    depth,         \* how many loopback route applications are entered and not left
    flag,          \* the value of the close-idle-conns-period command line flag
    mainPc,        \* where main stands: "start", "parsed", "exit", "options"
    clsic,         \* what parseDurationFlag returned to main
    period,        \* Options.CloseIdleConnsPeriod as main sets it
    flights,       \* the requests that pass the one filter at the same time
    pipes          \* heap of the io.Pipe objects their clones are fed through

filterVars == <<config, filter, createErr>>
requestVars == <<req, clone, urls, hdrs>>
streamVars == <<src, pipe, pc, cur, ret, primaryBytes, written, mirrorBytes, mstate, mirrorSaw>>
ctxVars == <<ctxs, resps, arrays, reqTE, params, newArgs, depth>>
mainVars == <<flag, mainPc, clsic, period>>
concVars == <<flights, pipes>>
vars == <<filterVars, requestVars, streamVars, ctxVars, mainVars, concVars>>

---------------------------------------------------------------------------
(* Bounds of the model. *)

MaxUrlLen == 5      \* longest base URL string handed to CreateFilter
MaxPathLen == 4     \* longest request path
MaxBody == 3        \* longest request body, in bytes
MaxChunk == 2       \* largest read buffer of the primary and of the mirror
MaxVals == 1        \* most values kept under one header name
MaxDepth == 2       \* deepest nesting of loopback route applications
MaxResponses == 3   \* most response objects: the two given, a default or a snapshot
MaxFlagLen == 3     \* longest value of the close-idle-conns-period flag

Min(a, b) == IF a < b THEN a ELSE b

RECURSIVE SeqsUpTo(_, _)
SeqsUpTo(S, n) ==
    IF n = 0 THEN {<<>>}
    ELSE LET shorter == SeqsUpTo(S, n - 1)
         IN  shorter \cup {Append(s, c) : s \in {t \in shorter : Len(t) = n - 1}, c \in S}

HasPrefix(s, p) == Len(s) >= Len(p) /\ SubSeq(s, 1, Len(p)) = p

\* strings.Index for a one-character separator, 0-based, -1 when absent
Index(s, c) ==
    IF \E i \in 1..Len(s) : s[i] = c
    THEN (CHOOSE i \in 1..Len(s) : s[i] = c /\ \A j \in 1..(i - 1) : s[j] # c) - 1
    ELSE -1

---------------------------------------------------------------------------
(* net/url.Parse, as CreateFilter calls it, over the characters            *)
(* "h" (a letter), ":" and "/".  No "?", "#", "@", "%", "[" or digit      *)
(* occurs in the inputs, so the query, fragment, userinfo, escaping and    *)
(* port branches of the library are not exercised: the authority is the    *)
(* host verbatim.                                                          *)

UrlChar == {"h", ":", "/"}
IsLetter(c) == c = "h"

RECURSIVE getscheme(_, _)
getscheme(rawurl, i) ==
    IF i > Len(rawurl) THEN [err |-> "nil", scheme |-> <<>>, rest |-> rawurl]
    ELSE IF IsLetter(rawurl[i]) THEN getscheme(rawurl, i + 1)
    ELSE IF rawurl[i] = ":" THEN
        IF i = 1 THEN [err |-> "missing protocol scheme", scheme |-> <<>>, rest |-> <<>>]
        ELSE [err |-> "nil", scheme |-> SubSeq(rawurl, 1, i - 1),
              rest |-> SubSeq(rawurl, i + 1, Len(rawurl))]
    ELSE [err |-> "nil", scheme |-> <<>>, rest |-> rawurl]

NoURL == [scheme |-> <<>>, host |-> <<>>, path |-> <<>>, query |-> <<>>]

ParseURL(rawurl) ==
    LET gs == getscheme(rawurl, 1)
        rest == gs.rest
        colon == Index(rest, ":")
        slash == Index(rest, "/")
    IN  IF gs.err # "nil" THEN [err |-> gs.err, url |-> NoURL]
        ELSE IF ~HasPrefix(rest, <<"/">>) /\ gs.scheme # <<>> THEN
            \* a rootless path after a scheme is opaque
            [err |-> "nil", url |-> [NoURL EXCEPT !.scheme = gs.scheme]]
        ELSE IF ~HasPrefix(rest, <<"/">>) /\ colon >= 0 /\ (slash < 0 \/ colon < slash) THEN
            [err |-> "first path segment in URL cannot contain colon", url |-> NoURL]
        ELSE IF (gs.scheme # <<>> \/ ~HasPrefix(rest, <<"/", "/", "/">>))
                /\ HasPrefix(rest, <<"/", "/">>) THEN
            LET after == SubSeq(rest, 3, Len(rest))
                cut == Index(after, "/")
                authority == IF cut < 0 THEN after ELSE SubSeq(after, 1, cut)
                path == IF cut < 0 THEN <<>> ELSE SubSeq(after, cut + 1, Len(after))
            IN  [err |-> "nil",
                 url |-> [scheme |-> gs.scheme, host |-> authority, path |-> path,
                          query |-> <<>>]]
        ELSE [err |-> "nil",
              url |-> [scheme |-> gs.scheme, host |-> <<>>, path |-> rest, query |-> <<>>]]

---------------------------------------------------------------------------
(* regexp.Compile and Regexp.ReplaceAllString for the patterns of the      *)
(* model: a literal, with "^" as its first character anchoring it at the   *)
(* start of the text, and "(" an unclosed group that does not compile.     *)
(* The replacements hold no "$", so they are inserted literally.           *)

NoRx == [anchored |-> FALSE, lit |-> <<>>, set |-> FALSE]

Compile(expr) ==
    IF \E i \in 1..Len(expr) : expr[i] = "("
    THEN [err |-> "missing closing )", rx |-> NoRx]
    ELSE IF Len(expr) > 0 /\ expr[1] = "^"
    THEN [err |-> "nil", rx |-> [anchored |-> TRUE, lit |-> Tail(expr), set |-> TRUE]]
    ELSE [err |-> "nil", rx |-> [anchored |-> FALSE, lit |-> expr, set |-> TRUE]]

\* whether rx matches s at the 0-based position i
MatchAt(rx, s, i) ==
    /\ rx.anchored => i = 0
    /\ i + Len(rx.lit) <= Len(s)
    /\ SubSeq(s, i + 1, i + Len(rx.lit)) = rx.lit

\* Regexp.doExecute: the leftmost match at or after pos, as <<start, end>>; <<>> if none
Execute(rx, s, pos) ==
    LET starts == {i \in pos..Len(s) : MatchAt(rx, s, i)}
    IN  IF starts = {} THEN <<>>
        ELSE LET a == CHOOSE i \in starts : \A j \in starts : i <= j
             IN  <<a, a + Len(rx.lit)>>

\* the loop of Regexp.replaceAll; positions are 0-based as in the library
RECURSIVE replaceAll(_, _, _, _, _, _)
replaceAll(rx, s, repl, lastMatchEnd, searchPos, buf) ==
    IF searchPos > Len(s) THEN buf \o SubSeq(s, lastMatchEnd + 1, Len(s))
    ELSE LET a == Execute(rx, s, searchPos)
         IN  IF a = <<>> THEN buf \o SubSeq(s, lastMatchEnd + 1, Len(s))
             ELSE LET copied == buf \o SubSeq(s, lastMatchEnd + 1, a[1])
                      out == IF a[2] > lastMatchEnd \/ a[1] = 0
                             THEN copied \o repl ELSE copied
                      width == IF searchPos < Len(s) THEN 1 ELSE 0
                      next == IF searchPos + width > a[2] THEN searchPos + width
                              ELSE IF searchPos + 1 > a[2] THEN searchPos + 1
                              ELSE a[2]
                  IN  replaceAll(rx, s, repl, a[2], next, out)

\* a slip: only the first match is replaced
ReplaceFirstString(rx, s, repl) ==
    LET a == Execute(rx, s, 0)
    IN  IF a = <<>> THEN s
        ELSE SubSeq(s, 1, a[1]) \o repl \o SubSeq(s, a[2] + 1, Len(s))

ReplaceAllString(rx, s, repl) == replaceAll(rx, s, repl, 0, 0, <<>>)

---------------------------------------------------------------------------
(* teeSpec.CreateFilter *)

asBackend == 1
pathModified == 2

Str(s) == [isString |-> TRUE, s |-> s]
NonString == [isString |-> FALSE, s |-> <<>>]

NoFilter == [typ |-> 0, host |-> <<>>, scheme |-> <<>>, rx |-> NoRx, replacement |-> <<>>]

ErrInvalidFilterParameters == "invalid filter parameters"
ErrExpectingRegexpAndString == "invalid filter config in tee, expecting regexp and string"

Rejected(err) == [filter |-> NoFilter, err |-> err]

\* a slip in the arity test: two parameters pass as the base URL alone
IsBackendOnlyBelowThree(cfg) == Len(cfg) < 3

\* the arity that makes CreateFilter return right after the base URL
IsBackendOnly(cfg) == Len(cfg) = 1

\* the arity that makes CreateFilter read a pattern and a replacement
IsPathModifying(cfg) == Len(cfg) = 3

CreateFilterResult(cfg) ==
    IF Len(cfg) = 0 THEN Rejected(ErrInvalidFilterParameters)
    ELSE IF ~cfg[1].isString THEN Rejected(ErrInvalidFilterParameters)
    ELSE LET parsed == ParseURL(cfg[1].s)
             tee == [NoFilter EXCEPT !.host = parsed.url.host, !.scheme = parsed.url.scheme]
         IN  IF parsed.err # "nil" THEN Rejected(parsed.err)
             ELSE IF IsBackendOnly(cfg) THEN
                 [filter |-> [tee EXCEPT !.typ = asBackend], err |-> "nil"]
             ELSE IF IsPathModifying(cfg) THEN
                 IF ~cfg[2].isString THEN Rejected(ErrExpectingRegexpAndString)
                 ELSE IF ~cfg[3].isString THEN Rejected(ErrExpectingRegexpAndString)
                 ELSE LET compiled == Compile(cfg[2].s)
                      IN  IF compiled.err # "nil" THEN Rejected(compiled.err)
                          ELSE [filter |-> [tee EXCEPT !.typ = pathModified,
                                                       !.rx = compiled.rx,
                                                       !.replacement = cfg[3].s],
                                err |-> "nil"]
             ELSE Rejected(ErrInvalidFilterParameters)

CreateFilter ==
    /\ filter = NoFilter
    /\ createErr = "nil"
    /\ filter' = CreateFilterResult(config).filter
    /\ createErr' = CreateFilterResult(config).err
    /\ UNCHANGED <<config, requestVars, streamVars>>
    /\ UNCHANGED <<ctxVars, mainVars, concVars>>

---------------------------------------------------------------------------
(* The requests.  A request is a record of its scalar fields with          *)
(* references (heap indices) for the two fields Go holds by pointer: the   *)
(* URL and the header map.                                                 *)

PathChar == {"/", "a", "b"}
HeaderNames == {"A"}
HeaderValues == {"v", "w"}

NoClone == [method |-> "", url |-> 0, host |-> <<>>, requestURI |-> <<>>,
            header |-> 0, body |-> "none"]

OrigHost == <<"o">>

\* an inbound server request: path and query only in its URL, Host set apart
Inbound(path, query) ==
    [r |-> [method |-> "POST", url |-> 1, host |-> OrigHost,
            requestURI |-> path \o query, header |-> 1, body |-> "source"],
     urls |-> <<[scheme |-> <<>>, host |-> <<>>, path |-> path, query |-> query]>>,
     hdrs |-> <<[n \in HeaderNames |-> <<"v">>]>>]

Queries == {<<>>, <<"?", "b">>}

\* a slip: the clone keeps the original's URL object
SameURL(us, u) == [ref |-> u, urls |-> us]

\* copyUrl := new(url.URL); *copyUrl = *req.URL
NewURL(us, u) == [ref |-> Len(us) + 1, urls |-> Append(us, us[u])]

\* io.Pipe()
NewPipe == [data |-> <<>>, rerr |-> "nil", werr |-> "nil"]
NoPipe == [data |-> <<>>, rerr |-> "none", werr |-> "none"]

cloneRequest(t, r, us) ==
    LET copy == NewURL(us, r.url)
        c == [r EXCEPT !.url = copy.ref, !.host = t.host, !.body = "pipeReader",
                       !.requestURI = <<>>]
        us1 == [copy.urls EXCEPT ![c.url].host = t.host, ![c.url].scheme = t.scheme]
        us2 == IF t.typ = pathModified
               THEN [us1 EXCEPT ![c.url].path = ReplaceAllString(t.rx, @, t.replacement)]
               ELSE us1
    IN  [clone |-> c, req |-> [r EXCEPT !.body = "tee"], urls |-> us2, pipe |-> NewPipe]

NoRead == [n |-> 0, err |-> "nil", b |-> <<>>, werr |-> "nil"]
NoRet == [n |-> -1, err |-> "nil", b |-> <<>>]

\* tee.Request: clone, then start the mirror task and return without waiting for it
Request ==
    /\ filter # NoFilter
    /\ clone = NoClone
    /\ pc = "start"
    /\ LET cr == cloneRequest(filter, req, urls)
       IN  /\ clone' = cr.clone
           /\ req' = cr.req
           /\ urls' = cr.urls
           /\ pipe' = cr.pipe
    /\ mstate' = "running"
    /\ pc' = "ready"
    /\ UNCHANGED <<filterVars, hdrs, src, cur, ret, primaryBytes, written, mirrorBytes,
                   mirrorSaw>>
    /\ UNCHANGED <<ctxVars, mainVars, concVars>>

\* tee.Response: "We do not touch response at all"
Response ==
    /\ clone # NoClone
    /\ UNCHANGED vars

---------------------------------------------------------------------------
(* What other code does with the two requests once the clone exists: a     *)
(* later filter working on the original's header, the HTTP client on the   *)
(* clone's.  http.Header.Set, Add and Del on the map the request refers to. *)

HeaderOf(r) == hdrs[r.header]

HeaderSet(r, n, v) ==
    /\ hdrs' = [hdrs EXCEPT ![r.header][n] = <<v>>]
    /\ hdrs' # hdrs

HeaderAdd(r, n, v) ==
    /\ Len(hdrs[r.header][n]) < MaxVals
    /\ hdrs' = [hdrs EXCEPT ![r.header][n] = Append(@, v)]

HeaderDel(r, n) ==
    /\ hdrs[r.header][n] # <<>>
    /\ hdrs' = [hdrs EXCEPT ![r.header][n] = <<>>]

MutateHeader(r) ==
    /\ clone # NoClone
    /\ \E n \in HeaderNames :
           \/ \E v \in HeaderValues : HeaderSet(r, n, v)
           \/ \E v \in HeaderValues : HeaderAdd(r, n, v)
           \/ HeaderDel(r, n)
    /\ UNCHANGED <<filterVars, req, clone, urls, streamVars>>
    /\ UNCHANGED <<ctxVars, mainVars, concVars>>

MutateOrigHeader == MutateHeader(req)

MutateCloneHeader == MutateHeader(clone)

---------------------------------------------------------------------------
(* io.Pipe: Write hands its bytes to the reader and returns only when the  *)
(* reader has taken all of them or one side is closed; Read takes from the *)
(* pending Write, else reports the writer's close error, else waits.       *)

ErrClosedPipe == "io: read/write on closed pipe"

\* pipe.write, up to its wait: refused on a closed write side, else b is on offer
PipeOffer(p, b) == IF p.werr # "nil" THEN p ELSE [p EXCEPT !.data = b]

\* pipe.write may return: all taken, or the reader or the writer closed
PipeWriteReturns(p) == p.data = <<>> \/ p.rerr # "nil" \/ p.werr # "nil"

PipeWriteErr(p) ==
    IF p.werr # "nil" THEN ErrClosedPipe
    ELSE IF p.data = <<>> THEN "nil"
    ELSE IF p.rerr # "nil" THEN p.rerr
    ELSE "nil"

\* PipeWriter.CloseWithError(err); Close() is CloseWithError(nil)
PipeCloseWrite(p, err) == [p EXCEPT !.werr = IF err = "nil" THEN "EOF" ELSE err]

\* PipeReader.Close()
PipeCloseRead(p) == [p EXCEPT !.rerr = ErrClosedPipe]

\* pipe.read does not wait
PipeReadReturns(p) == p.rerr # "nil" \/ p.data # <<>> \/ p.werr # "nil"

\* pipe.read into a buffer of k bytes
PipeRead(p, k) ==
    IF p.rerr # "nil" THEN [n |-> 0, err |-> ErrClosedPipe, b |-> <<>>, pipe |-> p]
    ELSE IF p.data # <<>> THEN
        LET n == Min(k, Len(p.data))
        IN  [n |-> n, err |-> "nil", b |-> SubSeq(p.data, 1, n),
             pipe |-> [p EXCEPT !.data = SubSeq(p.data, n + 1, Len(p.data))]]
    ELSE [n |-> 0, err |-> p.werr, b |-> <<>>, pipe |-> p]

---------------------------------------------------------------------------
(* teeTie.Read and teeTie.Close, called by the primary consumer of the     *)
(* original request's body.  The consumer reads until end-of-stream or an  *)
(* error, or gives the body up with Close.                                 *)

Bytes == {0, 1}

ErrSrc == "source read error"

\* what tt.r.Read may return on a buffer of up to MaxChunk bytes
SourceReads(s) ==
    {r \in [n : 0..Min(MaxChunk, Len(s)), err : {"nil", "EOF", ErrSrc}] :
        r.err = "EOF" => r.n = Len(s)}

\* a slip: the source's error is not told apart from a good read
IsFatalNever(err) == FALSE

\* err != nil && err != io.EOF
IsFatal(err) == err # "nil" /\ err # "EOF"

\* a slip: a read of a single byte is not written
ShouldWriteMoreThanOne(n, err) == n > 1

\* a slip: the bytes that come with end-of-stream are not written
ShouldWriteUnlessEOF(n, err) == n > 0 /\ err # "EOF"

\* if n > 0 { tt.w.Write(b[:n]) }
ShouldWrite(n, err) == n > 0

\* a slip: the error of the write to the pipe is returned
ReadResultWithWriteError(c) ==
    [n |-> c.n, err |-> IF c.werr # "nil" THEN c.werr ELSE c.err, b |-> c.b]

\* return n, err
ReadResult(c) == [n |-> c.n, err |-> c.err, b |-> c.b]

Return(c) ==
    /\ ret' = ReadResult(c)
    /\ primaryBytes' = primaryBytes \o ret'.b

Read ==
    /\ pc = "ready"
    /\ \E r \in SourceReads(src) :
        LET c == [n |-> r.n, err |-> r.err, b |-> SubSeq(src, 1, r.n), werr |-> "nil"]
        IN  /\ src' = SubSeq(src, r.n + 1, Len(src))
            /\ cur' = c
            /\ IF IsFatal(c.err) THEN
                   /\ pipe' = PipeCloseWrite(pipe, c.err)
                   /\ Return(c)
                   /\ pc' = "failed"
                   /\ UNCHANGED written
               ELSE IF ShouldWrite(c.n, c.err) THEN
                   /\ pipe' = PipeOffer(pipe, c.b)
                   /\ written' = written \o c.b
                   /\ ret' = NoRet
                   /\ pc' = "write"
                   /\ UNCHANGED primaryBytes
               ELSE IF c.err = "EOF" THEN
                   /\ ret' = NoRet
                   /\ pc' = "close"
                   /\ UNCHANGED <<pipe, written, primaryBytes>>
               ELSE
                   /\ Return(c)
                   /\ pc' = "ready"
                   /\ UNCHANGED <<pipe, written>>
    /\ UNCHANGED <<filterVars, requestVars, mirrorBytes, mstate, mirrorSaw>>
    /\ UNCHANGED <<ctxVars, mainVars, concVars>>

\* tt.w.Write returns; its error is logged only
WriteReturn ==
    /\ pc = "write"
    /\ PipeWriteReturns(pipe)
    /\ cur' = [cur EXCEPT !.werr = PipeWriteErr(pipe)]
    /\ pipe' = [pipe EXCEPT !.data = <<>>]
    /\ IF cur.err = "EOF"
       THEN /\ pc' = "close"
            /\ UNCHANGED <<ret, primaryBytes>>
       ELSE /\ Return(cur')
            /\ pc' = "ready"
    /\ UNCHANGED <<filterVars, requestVars, src, written, mirrorBytes, mstate, mirrorSaw>>
    /\ UNCHANGED <<ctxVars, mainVars, concVars>>

\* if err == io.EOF { tt.w.Close() }; return n, err
CloseAtEOF ==
    /\ pc = "close"
    /\ pipe' = PipeCloseWrite(pipe, "nil")
    /\ Return(cur)
    /\ pc' = "eof"
    /\ UNCHANGED <<filterVars, requestVars, src, cur, written, mirrorBytes, mstate, mirrorSaw>>
    /\ UNCHANGED <<ctxVars, mainVars, concVars>>

\* teeTie.Close: returns nil and does nothing; the consumer reads no further
Close ==
    /\ pc = "ready"
    /\ pc' = "closed"
    /\ UNCHANGED <<filterVars, requestVars, src, pipe, cur, ret, primaryBytes, written,
                   mirrorBytes, mstate, mirrorSaw>>
    /\ UNCHANGED <<ctxVars, mainVars, concVars>>

---------------------------------------------------------------------------
(* The mirror task, go func() { r.client.Do(&copyOfRequest) }: the HTTP    *)
(* client reads clone.Body while it sends the request, and closes it when  *)
(* it is done with it or gives up (a failed connection).  Nothing obliges  *)
(* it to do either.                                                        *)

MirrorRead ==
    /\ mstate = "running"
    /\ mirrorSaw = "nil"
    /\ PipeReadReturns(pipe)
    /\ \E k \in 1..MaxChunk :
        LET r == PipeRead(pipe, k)
        IN  /\ pipe' = r.pipe
            /\ mirrorBytes' = mirrorBytes \o r.b
            /\ mirrorSaw' = r.err
    /\ UNCHANGED <<filterVars, requestVars, src, pc, cur, ret, primaryBytes, written, mstate>>
    /\ UNCHANGED <<ctxVars, mainVars, concVars>>

MirrorClose ==
    /\ mstate = "running"
    /\ pipe' = PipeCloseRead(pipe)
    /\ mstate' = "closed"
    /\ UNCHANGED <<filterVars, requestVars, src, pc, cur, ret, primaryBytes, written,
                   mirrorBytes, mirrorSaw>>
    /\ UNCHANGED <<ctxVars, mainVars, concVars>>

PrimaryNext == Read \/ WriteReturn \/ CloseAtEOF \/ Close

MirrorNext == MirrorRead \/ MirrorClose

---------------------------------------------------------------------------
(* Several requests passing the one filter at the same time.  Each has the *)
(* state of a request above, as a record; the pipe of its tee is a         *)
(* reference into pipes.  The filter and the heap of URLs are shared.      *)

\* a request with the bytes of its body, before the filter sees it
NewFlight(r, bytes) ==
    [req |-> r, clone |-> NoClone, bytes |-> bytes, src |-> bytes, w |-> 0, pr |-> 0,
     pc |-> "start", cur |-> NoRead, primaryBytes |-> <<>>, mirrorBytes |-> <<>>,
     mirrorSaw |-> "nil", mstate |-> "none"]

Flights == DOMAIN flights

\* a slip: the filter keeps the pipe of its first request for the later ones
filterPipe(ps) == 1

\* pr, pw := io.Pipe(), the reference of the new pipe
ioPipe(ps) == Len(ps) + 1

\* tee.Request for request k
FlightRequest(k) ==
    LET f == flights[k]
        cr == cloneRequest(filter, f.req, urls)
        p == ioPipe(pipes)
    IN  /\ filter # NoFilter
        /\ f.clone = NoClone
        /\ f.pc = "start"
        /\ flights' = [flights EXCEPT ![k] =
               [f EXCEPT !.clone = cr.clone, !.req = cr.req, !.w = p, !.pr = p,
                         !.mstate = "running", !.pc = "ready"]]
        /\ urls' = cr.urls
        /\ pipes' = IF p > Len(pipes) THEN Append(pipes, cr.pipe) ELSE pipes
        /\ UNCHANGED <<filterVars, req, clone, hdrs, streamVars, ctxVars, mainVars>>

\* tee.Response for request k
FlightResponse(k) ==
    /\ flights[k].clone # NoClone
    /\ UNCHANGED vars

\* teeTie.Read of request k, the source returning r: the request and its pipe after
\* it, up to the return of tt.w.Write where there is one
teeTieRead(f, p, r) ==
    LET c == [n |-> r.n, err |-> r.err, b |-> SubSeq(f.src, 1, r.n), werr |-> "nil"]
        g == [f EXCEPT !.src = SubSeq(f.src, r.n + 1, Len(f.src)), !.cur = c]
    IN  IF IsFatal(c.err) THEN
            [f |-> [g EXCEPT !.primaryBytes = @ \o ReadResult(c).b, !.pc = "failed"],
             p |-> PipeCloseWrite(p, c.err)]
        ELSE IF ShouldWrite(c.n, c.err) THEN
            [f |-> [g EXCEPT !.pc = "write"], p |-> PipeOffer(p, c.b)]
        ELSE IF c.err = "EOF" THEN
            [f |-> [g EXCEPT !.pc = "close"], p |-> p]
        ELSE
            [f |-> [g EXCEPT !.primaryBytes = @ \o ReadResult(c).b, !.pc = "ready"],
             p |-> p]

FlightRead(k) ==
    /\ flights[k].pc = "ready"
    /\ \E r \in SourceReads(flights[k].src) :
           LET t == teeTieRead(flights[k], pipes[flights[k].w], r)
           IN  /\ flights' = [flights EXCEPT ![k] = t.f]
               /\ pipes' = [pipes EXCEPT ![flights[k].w] = t.p]
    /\ UNCHANGED <<filterVars, requestVars, streamVars, ctxVars, mainVars>>

\* tt.w.Write of request k returns
FlightWriteReturn(k) ==
    LET f == flights[k]
        c == [f.cur EXCEPT !.werr = PipeWriteErr(pipes[f.w])]
    IN  /\ f.pc = "write"
        /\ PipeWriteReturns(pipes[f.w])
        /\ pipes' = [pipes EXCEPT ![f.w].data = <<>>]
        /\ flights' = [flights EXCEPT ![k] =
               IF c.err = "EOF" THEN [f EXCEPT !.cur = c, !.pc = "close"]
               ELSE [f EXCEPT !.cur = c, !.primaryBytes = @ \o ReadResult(c).b,
                              !.pc = "ready"]]
        /\ UNCHANGED <<filterVars, requestVars, streamVars, ctxVars, mainVars>>

\* tt.w.Close() of request k at end-of-stream, and the return of Read
FlightCloseAtEOF(k) ==
    LET f == flights[k]
    IN  /\ f.pc = "close"
        /\ pipes' = [pipes EXCEPT ![f.w] = PipeCloseWrite(@, "nil")]
        /\ flights' = [flights EXCEPT ![k] =
               [f EXCEPT !.primaryBytes = @ \o ReadResult(f.cur).b, !.pc = "eof"]]
        /\ UNCHANGED <<filterVars, requestVars, streamVars, ctxVars, mainVars>>

\* the mirror task of request k reads clone.Body
FlightMirrorRead(k) ==
    LET f == flights[k]
    IN  /\ f.mstate = "running"
        /\ f.mirrorSaw = "nil"
        /\ PipeReadReturns(pipes[f.pr])
        /\ \E n \in 1..MaxChunk :
               LET r == PipeRead(pipes[f.pr], n)
               IN  /\ pipes' = [pipes EXCEPT ![f.pr] = r.pipe]
                   /\ flights' = [flights EXCEPT ![k] =
                          [f EXCEPT !.mirrorBytes = @ \o r.b, !.mirrorSaw = r.err]]
        /\ UNCHANGED <<filterVars, requestVars, streamVars, ctxVars, mainVars>>

\* the mirror task of request k closes clone.Body
FlightMirrorClose(k) ==
    LET f == flights[k]
    IN  /\ f.mstate = "running"
        /\ pipes' = [pipes EXCEPT ![f.pr] = PipeCloseRead(@)]
        /\ flights' = [flights EXCEPT ![k] = [f EXCEPT !.mstate = "closed"]]
        /\ UNCHANGED <<filterVars, requestVars, streamVars, ctxVars, mainVars>>

\* the steps of any of the requests
ConcRequest == \E k \in Flights : FlightRequest(k)
ConcResponse == \E k \in Flights : FlightResponse(k)
ConcRead == \E k \in Flights : FlightRead(k)
ConcWriteReturn == \E k \in Flights : FlightWriteReturn(k)
ConcCloseAtEOF == \E k \in Flights : FlightCloseAtEOF(k)
ConcMirrorRead == \E k \in Flights : FlightMirrorRead(k)
ConcMirrorClose == \E k \in Flights : FlightMirrorClose(k)

---------------------------------------------------------------------------
(* The proxy context of one request (type context).  Its request field is  *)
(* the live request req, the one tee.Request reads with Request(); it is   *)
(* never reassigned.  The response it holds is a reference into resps, the *)
(* objects Go holds by pointer, so that "the same response object" is an   *)
(* equality of references.                                                 *)

StatusNotFound == 404

\* a nil slice, and a slice of length len over the backing array arr
NoSlice == [arr |-> 0, len |-> 0]

Encodings == {"chunked", "gzip"}

\* make(http.Header)
EmptyHeader == [n \in HeaderNames |-> <<>>]

\* a slip: the copy is the same map
sameHeader(hs, h) == [ref |-> h, hdrs |-> hs]

\* cloneHeader: a new map with a new value list for every name
cloneHeader(hs, h) ==
    [ref |-> Len(hs) + 1,
     hdrs |-> Append(hs, IF h = 0 THEN EmptyHeader ELSE [n \in HeaderNames |-> hs[h][n]])]

NoRoute == [id |-> 0, host |-> <<>>]

\* the routes of the routing table: a network backend and a loopback route
Routes == {[id |-> 1, host |-> <<"b">>], [id |-> 2, host |-> <<>>]}

Hosts == {OrigHost, <<"x">>}

ParamKeys == {"k", "l"}
ParamValues == {"1", "2"}

\* the path parameters a route match yields: a map over some of the keys
ParamMaps == UNION {[ks -> ParamValues] : ks \in SUBSET ParamKeys}

NoSnapshot == [method |-> "", url |-> 0, host |-> <<>>, requestURI |-> <<>>,
               header |-> 0, body |-> "nil", te |-> NoSlice]

NoArgs == [called |-> FALSE, preserveOriginal |-> FALSE, host |-> <<>>]

\* defaultResponse(r): 404, an empty header at reference h, an empty body
defaultResponse(h) ==
    [status |-> StatusNotFound, header |-> h, body |-> "empty", request |-> "req"]

\* cloneRequestMetadata(r): the snapshot and the heaps after its allocations; te is
\* r.TransferEncoding, a slice value, copied as such: the same backing array
cloneRequestMetadata(r, te, us, hs) ==
    LET u == NewURL(us, r.url)
        h == cloneHeader(hs, r.header)
    IN  [r |-> [method |-> r.method, url |-> u.ref, host |-> r.host,
                requestURI |-> r.requestURI, header |-> h.ref, body |-> "empty",
                te |-> te],
         urls |-> u.urls, hdrs |-> h.hdrs]

\* cloneResponseMetadata(r): the snapshot object and the header heap after it
cloneResponseMetadata(r, hs) ==
    LET h == cloneHeader(hs, r.header)
    IN  [r |-> [status |-> r.status, header |-> h.ref, body |-> "empty",
                request |-> r.request],
         hdrs |-> h.hdrs]

\* a slip: the entries of from are only taken for keys to does not hold yet
mergeParamsKeepingOld(to, from) ==
    [k \in DOMAIN to \cup DOMAIN from |-> IF k \in DOMAIN to THEN to[k] ELSE from[k]]

\* mergeParams(to, from), the contents of the map it returns
mergeParams(to, from) ==
    [k \in DOMAIN to \cup DOMAIN from |-> IF k \in DOMAIN from THEN from[k] ELSE to[k]]

\* the empty map, make(map[string]string)
EmptyParams == [k \in {} |-> ""]

\* newContext(w, r, preserveOriginal) for the live request req
newContext(preserveOriginal) ==
    LET s == cloneRequestMetadata(req, reqTE, urls, hdrs)
    IN  /\ ctxs = <<>>
        /\ ctxs' = <<[response |-> 0, route |-> NoRoute,
                      deprecatedServed |-> FALSE, servedWithResponse |-> FALSE,
                      pathParams |-> 0,
                      originalRequest |-> IF preserveOriginal THEN s.r ELSE NoSnapshot,
                      originalResponse |-> 0,
                      outgoingHost |-> req.host, loopCounter |-> 0]>>
        /\ IF preserveOriginal
           THEN urls' = s.urls /\ hdrs' = s.hdrs
           ELSE UNCHANGED <<urls, hdrs>>
        /\ newArgs' = [called |-> TRUE, preserveOriginal |-> preserveOriginal,
                       host |-> req.host]
        /\ UNCHANGED <<filterVars, req, clone, streamVars, resps, arrays, reqTE, params,
                       depth, mainVars, concVars>>

NewContext == \E preserveOriginal \in BOOLEAN : newContext(preserveOriginal)

Contexts == 1..Len(ctxs)

\* the accessors of the context; Request and Response are named after their
\* receiver, the two names being the filter's methods above
contextRequest(i) == req
contextResponse(i) == ctxs[i].response
Served(i) == ctxs[i].deprecatedServed \/ ctxs[i].servedWithResponse
deprecatedShunted(i) == ctxs[i].deprecatedServed
shunted(i) == ctxs[i].servedWithResponse
OriginalRequest(i) == ctxs[i].originalRequest
OriginalResponse(i) == ctxs[i].originalResponse
OutgoingHost(i) == ctxs[i].outgoingHost

\* c.pathParams[key]: "" for a nil map and for a key the map does not hold
PathParam(i, key) ==
    IF ctxs[i].pathParams = 0 THEN ""
    ELSE IF key \in DOMAIN params[ctxs[i].pathParams]
         THEN params[ctxs[i].pathParams][key] ELSE ""

\* what no operation of the context touches
elsewhere == <<filterVars, clone, streamVars, mainVars, concVars>>

\* a slip: the counter is left as it is
keepLoopCounter(n) == n

incLoopCounter(n) == n + 1
decLoopCounter(n) == n - 1

\* c.incLoopCounter() on entering a loopback route application
IncLoopCounter(i) ==
    /\ depth < MaxDepth
    /\ ctxs' = [ctxs EXCEPT ![i].loopCounter = incLoopCounter(@)]
    /\ depth' = depth + 1
    /\ UNCHANGED <<elsewhere, requestVars, resps, arrays, reqTE, params, newArgs>>

\* c.decLoopCounter() on leaving a loopback route application that was entered
DecLoopCounter(i) ==
    /\ depth > 0
    /\ ctxs' = [ctxs EXCEPT ![i].loopCounter = decLoopCounter(@)]
    /\ depth' = depth - 1
    /\ UNCHANGED <<elsewhere, requestVars, resps, arrays, reqTE, params, newArgs>>

\* the outgoingHost applyRoute sets; host is c.request.Host at the call
routeHost(route, preserveHost, host) ==
    IF preserveHost THEN host ELSE route.host

\* c.applyRoute(route, params, preserveHost)
applyRoute(i, route, ps, preserveHost) ==
    LET m == ctxs[i].pathParams
    IN  /\ ctxs' = [ctxs EXCEPT
                       ![i].route = route,
                       ![i].outgoingHost =
                           routeHost(route, preserveHost, req.host),
                       ![i].pathParams = IF m = 0 THEN Len(params) + 1 ELSE m]
        /\ params' = IF m = 0 THEN Append(params, mergeParams(EmptyParams, ps))
                     ELSE [params EXCEPT ![m] = mergeParams(@, ps)]
        /\ UNCHANGED <<elsewhere, requestVars, resps, arrays, reqTE, newArgs, depth>>

\* a slip: a response already there is left as it is, whatever it lacks
defaultOnlyWhenNil(r, h) == r

\* ensureDefaultResponse on a response that is there: r with what it lacks,
\* h being the reference of a new empty header
withDefaults(r, h) ==
    [r EXCEPT !.header = IF @ = 0 THEN h ELSE @,
              !.body = IF @ = "nil" THEN "empty" ELSE @]

\* c.ensureDefaultResponse()
ensureDefaultResponse(i) ==
    LET r == ctxs[i].response
        h == Len(hdrs) + 1
    IN  /\ IF r = 0
           THEN /\ resps' = Append(resps, defaultResponse(h))
                /\ ctxs' = [ctxs EXCEPT ![i].response = Len(resps) + 1]
                /\ hdrs' = Append(hdrs, EmptyHeader)
           ELSE /\ resps' = [resps EXCEPT ![r] = withDefaults(@, h)]
                /\ hdrs' = IF resps[r].header = 0 THEN Append(hdrs, EmptyHeader) ELSE hdrs
                /\ UNCHANGED ctxs
        /\ UNCHANGED <<elsewhere, req, urls, arrays, reqTE, params, newArgs, depth>>

\* the responses that are handed to the context: the backend's, a filter's
Given == {1, 2}

\* c.setResponse(r, preserveOriginal), r a response that is there
setResponse(i, r, preserveOriginal) ==
    LET s == cloneResponseMetadata(resps[r], hdrs)
    IN  /\ IF preserveOriginal
           THEN /\ Len(resps) < MaxResponses
                /\ resps' = Append(resps, s.r)
                /\ hdrs' = s.hdrs
                /\ ctxs' = [ctxs EXCEPT ![i].response = r,
                                        ![i].originalResponse = Len(resps) + 1]
           ELSE /\ ctxs' = [ctxs EXCEPT ![i].response = r]
                /\ UNCHANGED <<resps, hdrs>>
        /\ UNCHANGED <<elsewhere, req, urls, arrays, reqTE, params, newArgs, depth>>

\* c.MarkServed()
MarkServed(i) ==
    /\ ctxs' = [ctxs EXCEPT ![i].deprecatedServed = TRUE]
    /\ UNCHANGED <<elsewhere, requestVars, resps, arrays, reqTE, params, newArgs, depth>>

\* a slip: the flag of MarkServed is raised
servedDeprecated(c, r) == [c EXCEPT !.deprecatedServed = TRUE, !.response = r]

\* a slip: the response the context held is kept
servedKeepingResponse(c, r) == [c EXCEPT !.servedWithResponse = TRUE]

\* what Serve leaves in the context
served(c, r) == [c EXCEPT !.servedWithResponse = TRUE, !.response = r]

\* c.Serve(r), r a response that is there
Serve(i, r) ==
    LET h == Len(hdrs) + 1
    IN  /\ resps' = [resps EXCEPT ![r] = [withDefaults(@, h) EXCEPT !.request = "req"]]
        /\ hdrs' = IF resps[r].header = 0 THEN Append(hdrs, EmptyHeader) ELSE hdrs
        /\ ctxs' = [ctxs EXCEPT ![i] = served(@, r)]
        /\ UNCHANGED <<elsewhere, req, urls, arrays, reqTE, params, newArgs, depth>>

\* c.SetOutgoingHost(h)
SetOutgoingHost(i, h) ==
    /\ ctxs' = [ctxs EXCEPT ![i].outgoingHost = h]
    /\ UNCHANGED <<elsewhere, requestVars, resps, arrays, reqTE, params, newArgs, depth>>

---------------------------------------------------------------------------
(* What filters do with the objects the context hands out: the live        *)
(* request of Request() and the live response of Response().               *)

\* ctx.Request().Host = h
SetRequestHost ==
    /\ ctxs # <<>>
    /\ \E h \in Hosts : req' = [req EXCEPT !.host = h]
    /\ req' # req
    /\ UNCHANGED <<elsewhere, urls, hdrs, ctxVars>>

\* ctx.Request().Header.Set, Add, Del
SetRequestHeader ==
    /\ ctxs # <<>>
    /\ \E n \in HeaderNames :
           \/ \E v \in HeaderValues : HeaderSet(req, n, v)
           \/ \E v \in HeaderValues : HeaderAdd(req, n, v)
           \/ HeaderDel(req, n)
    /\ UNCHANGED <<elsewhere, req, urls, ctxVars>>

\* ctx.Request().URL.Host = h, ctx.Request().URL.Path = "/"
SetRequestURL ==
    /\ ctxs # <<>>
    /\ \/ \E h \in Hosts : urls' = [urls EXCEPT ![req.url].host = h]
       \/ urls' = [urls EXCEPT ![req.url].path = <<"/">>]
    /\ urls' # urls
    /\ UNCHANGED <<elsewhere, req, hdrs, ctxVars>>

\* ctx.Request().TransferEncoding[k] = e
SetTransferEncoding ==
    /\ ctxs # <<>>
    /\ reqTE.arr # 0
    /\ \E k \in 1..reqTE.len, e \in Encodings :
           arrays' = [arrays EXCEPT ![reqTE.arr][k] = e]
    /\ arrays' # arrays
    /\ UNCHANGED <<elsewhere, requestVars, ctxs, resps, reqTE, params, newArgs, depth>>

\* ctx.Response().Header.Set, Del
SetResponseHeader(i) ==
    /\ ctxs[i].response # 0
    /\ resps[ctxs[i].response].header # 0
    /\ \E n \in HeaderNames :
           \/ \E v \in HeaderValues : HeaderSet(resps[ctxs[i].response], n, v)
           \/ HeaderDel(resps[ctxs[i].response], n)
    /\ UNCHANGED <<elsewhere, req, urls, ctxVars>>

\* c.clone(): cc = *c, a second context with the values of the fields of the
\* first, references among them; one copy is made
clone_(i) ==
    /\ Len(ctxs) = 1
    /\ ctxs' = Append(ctxs, ctxs[i])
    /\ UNCHANGED <<elsewhere, requestVars, resps, arrays, reqTE, params, newArgs, depth>>

\* the operations, for any context and any arguments
DoApplyRoute ==
    \E i \in Contexts, route \in Routes, ps \in ParamMaps, preserveHost \in BOOLEAN :
        applyRoute(i, route, ps, preserveHost)
\* the application of a route to a network backend that has no path parameters
ApplyBackendRoute ==
    \E i \in Contexts : applyRoute(i, [id |-> 1, host |-> <<"b">>], EmptyParams, FALSE)
EnterLoopback == \E i \in Contexts : IncLoopCounter(i)
LeaveLoopback == \E i \in Contexts : DecLoopCounter(i)
DoEnsureDefaultResponse == \E i \in Contexts : ensureDefaultResponse(i)
DoSetResponse ==
    \E i \in Contexts, r \in Given, preserveOriginal \in BOOLEAN :
        setResponse(i, r, preserveOriginal)
DoMarkServed == \E i \in Contexts : MarkServed(i)
DoServe == \E i \in Contexts, r \in Given : Serve(i, r)
DoSetOutgoingHost == \E i \in Contexts, h \in Hosts : SetOutgoingHost(i, h)
DoSetResponseHeader == \E i \in Contexts : SetResponseHeader(i)
CloneContext == \E i \in Contexts : clone_(i)
\* the application of the loopback route with a path parameter, the host kept
ApplyLoopbackRoute ==
    \E i \in Contexts, v \in ParamValues :
        applyRoute(i, [id |-> 2, host |-> <<>>], [k \in {"k"} |-> v], TRUE)

\* the operations on a context and its copy, once the copy is made: the
\* response is the backend's, an exit is that of an entry made on the context
CopyMarkServed == \E i \in Contexts : Len(ctxs) = 2 /\ MarkServed(i)
CopyServe == \E i \in Contexts : Len(ctxs) = 2 /\ Serve(i, 2)
CopySetResponse == \E i \in Contexts : Len(ctxs) = 2 /\ setResponse(i, 2, FALSE)
CopyEnterLoopback == \E i \in Contexts : Len(ctxs) = 2 /\ IncLoopCounter(i)
CopyLeaveLoopback ==
    \E i \in Contexts : Len(ctxs) = 2 /\ ctxs[i].loopCounter > 0 /\ DecLoopCounter(i)
CopySetOutgoingHost ==
    \E i \in Contexts, h \in Hosts : Len(ctxs) = 2 /\ SetOutgoingHost(i, h)

---------------------------------------------------------------------------
(* cmd/skipper/main.go: the close-idle-conns-period flag.  A time.Duration *)
(* is an int64 of nanoseconds; it is held here as its eight bytes, least   *)
(* significant first, in two's complement, so that a product is taken      *)
(* modulo 2^64 as Go takes it.                                             *)

Limbs == 8
Base == 256

RECURSIVE Limb(_, _)
Limb(n, k) == IF k = 1 THEN n % Base ELSE Limb(n \div Base, k - 1)

\* int64(n) for a natural number n
FromNat(n) == [k \in 1..Limbs |-> Limb(n, k)]

\* the sum of the products a[i] * b[j] of weight Base^(k-1)
RECURSIVE Column(_, _, _, _)
Column(a, b, k, i) ==
    IF i > k THEN 0 ELSE a[i] * b[k + 1 - i] + Column(a, b, k, i + 1)

RECURSIVE MulFrom(_, _, _, _)
MulFrom(a, b, k, carry) ==
    IF k > Limbs THEN <<>>
    ELSE LET t == Column(a, b, k, 1) + carry
         IN  <<t % Base>> \o MulFrom(a, b, k + 1, t \div Base)

\* a * b on int64
Mul64(a, b) == MulFrom(a, b, 1, 0)

RECURSIVE AddFrom(_, _, _, _)
AddFrom(a, b, k, carry) ==
    IF k > Limbs THEN <<>>
    ELSE LET t == a[k] + b[k] + carry
         IN  <<t % Base>> \o AddFrom(a, b, k + 1, t \div Base)

\* a + b on int64
Add64(a, b) == AddFrom(a, b, 1, 0)

\* -a on int64
Neg64(a) == Mul64(a, [k \in 1..Limbs |-> Base - 1])

\* a < 0 on int64
IsNegative(a) == 2 * a[Limbs] >= Base

Zero64 == FromNat(0)

\* time.Second, in nanoseconds
Second == FromNat(1000000000)

FlagChars == {"-", "0", "1", "2", "s", "x"}
Digits == {"0", "1", "2"}

DigitValue(c) == IF c = "0" THEN 0 ELSE IF c = "1" THEN 1 ELSE 2

\* how many digits s starts with
RECURSIVE DigitsAhead(_)
DigitsAhead(s) ==
    IF s # <<>> /\ Head(s) \in Digits THEN 1 + DigitsAhead(Tail(s)) ELSE 0

\* how many characters that are no digit s starts with
RECURSIVE UnitAhead(_)
UnitAhead(s) ==
    IF s # <<>> /\ Head(s) \notin Digits THEN 1 + UnitAhead(Tail(s)) ELSE 0

\* the number a string of digits writes
RECURSIVE DecimalValue(_)
DecimalValue(s) ==
    IF s = <<>> THEN 0
    ELSE 10 * DecimalValue(SubSeq(s, 1, Len(s) - 1)) + DigitValue(s[Len(s)])

\* the loop of time.ParseDuration over the terms of s, d the sum so far
RECURSIVE parseTerms(_, _)
parseTerms(s, d) ==
    IF s = <<>> THEN [d |-> d, err |-> "nil"]
    ELSE IF Head(s) \notin Digits THEN [d |-> Zero64, err |-> "invalid duration"]
    ELSE LET n == DigitsAhead(s)
             rest == SubSeq(s, n + 1, Len(s))
             u == UnitAhead(rest)
         IN  IF u = 0 THEN [d |-> Zero64, err |-> "missing unit"]
             ELSE IF SubSeq(rest, 1, u) # <<"s">>
                  THEN [d |-> Zero64, err |-> "unknown unit"]
             ELSE parseTerms(SubSeq(rest, u + 1, Len(rest)),
                             Add64(d, Mul64(FromNat(DecimalValue(SubSeq(s, 1, n))),
                                            Second)))

\* time.ParseDuration(s) for the unit "s"; "x" is no unit, there is no ".",
\* and no value is large enough for its overflow checks
ParseDuration(s) ==
    LET neg == s # <<>> /\ Head(s) = "-"
        t == IF neg THEN Tail(s) ELSE s
        r == parseTerms(t, Zero64)
    IN  IF t = <<"0">> THEN [d |-> Zero64, err |-> "nil"]
        ELSE IF t = <<>> THEN [d |-> Zero64, err |-> "invalid duration"]
        ELSE IF r.err = "nil" /\ neg THEN [d |-> Neg64(r.d), err |-> "nil"]
        ELSE r

\* strconv.Atoi(s): an optional sign and digits
Atoi(s) ==
    LET neg == s # <<>> /\ Head(s) = "-"
        t == IF neg THEN Tail(s) ELSE s
    IN  IF t = <<>> \/ DigitsAhead(t) # Len(t) THEN [i |-> Zero64, err |-> "syntax"]
        ELSE [i |-> IF neg THEN Neg64(FromNat(DecimalValue(t))) ELSE FromNat(DecimalValue(t)),
              err |-> "nil"]

\* parseDurationFlag(ds)
parseDurationFlag(ds) ==
    IF ParseDuration(ds).err = "nil" THEN ParseDuration(ds)
    ELSE IF Atoi(ds).err = "nil" THEN [d |-> Mul64(Atoi(ds).i, Second), err |-> "nil"]
    ELSE [d |-> Zero64, err |-> ParseDuration(ds).err]

\* main: clsic, err := parseDurationFlag(closeIdleConnsPeriod), exit on an error
ParseFlag ==
    /\ mainPc = "start"
    /\ IF parseDurationFlag(flag).err = "nil"
       THEN /\ clsic' = parseDurationFlag(flag).d
            /\ mainPc' = "parsed"
       ELSE /\ mainPc' = "exit"
            /\ UNCHANGED clsic
    /\ UNCHANGED <<filterVars, requestVars, streamVars, ctxVars, concVars, flag, period>>

\* main: CloseIdleConnsPeriod: time.Duration(clsic) * time.Second
SetOptions ==
    /\ mainPc = "parsed"
    /\ period' = Mul64(clsic, Second)
    /\ mainPc' = "options"
    /\ UNCHANGED <<filterVars, requestVars, streamVars, ctxVars, concVars, flag, clsic>>

---------------------------------------------------------------------------
(* Specifications.  Each draws the inputs of the operations it runs; the   *)
(* state of the parts it does not run stays as constructed.                *)

NoRequest ==
    /\ req = Inbound(<<"/">>, <<>>).r
    /\ urls = Inbound(<<"/">>, <<>>).urls
    /\ hdrs = Inbound(<<"/">>, <<>>).hdrs
    /\ clone = NoClone

NoStream ==
    /\ src = <<>>
    /\ pipe = NoPipe
    /\ pc = "start"
    /\ cur = NoRead
    /\ ret = NoRet
    /\ primaryBytes = <<>>
    /\ written = <<>>
    /\ mirrorBytes = <<>>
    /\ mstate = "none"
    /\ mirrorSaw = "nil"

NoContext ==
    /\ ctxs = <<>>
    /\ resps = <<>>
    /\ arrays = <<>>
    /\ reqTE = NoSlice
    /\ params = <<>>
    /\ newArgs = NoArgs
    /\ depth = 0

NoMain ==
    /\ flag = <<>>
    /\ mainPc = "start"
    /\ clsic = Zero64
    /\ period = Zero64

NoFlights ==
    /\ flights = <<>>
    /\ pipes = <<>>

NoFilterRun ==
    /\ config = <<>>
    /\ filter = NoFilter
    /\ createErr = "nil"

Patterns ==
    {<<>>, <<"a">>, <<"/", "a">>, <<"a", "a">>, <<"^", "/", "a">>, <<"^">>,
     <<"(">>, <<"a", "(">>}

Replacements == {<<>>, <<"b">>, <<"a", "/">>}

\* CreateFilter on every configuration of up to four parameters
CreateConfigs ==
    LET first == {Str(u) : u \in SeqsUpTo(UrlChar, MaxUrlLen)} \cup {NonString}
        second == {Str(p) : p \in Patterns} \cup {NonString}
        third == {Str(r) : r \in Replacements} \cup {NonString}
    IN  {<<>>} \cup {<<a>> : a \in first}
        \cup {<<a, b>> : a \in first, b \in second}
        \cup {<<a, b, c>> : a \in first, b \in second, c \in third}
        \cup {<<a, b, c, NonString>> : a \in first, b \in {Str(<<"a">>)}, c \in third}

CreateInit ==
    /\ config \in CreateConfigs
    /\ filter = NoFilter
    /\ createErr = "nil"
    /\ NoRequest
    /\ NoStream
    /\ NoFlights
    /\ NoContext
    /\ NoMain

CreateNext == CreateFilter

CreateSpec == CreateInit /\ [][CreateNext]_vars

\* the mirror target of the request specifications
ShadowURL == <<"h", ":", "/", "/", "h">>

CloneConfigs ==
    {<<Str(ShadowURL)>>}
    \cup {<<Str(ShadowURL), Str(p), Str(r)>> : p \in Patterns, r \in Replacements}

CloneInit ==
    /\ config \in CloneConfigs
    /\ filter = NoFilter
    /\ createErr = "nil"
    /\ \E path \in SeqsUpTo(PathChar, MaxPathLen), query \in Queries :
           /\ req = Inbound(path, query).r
           /\ urls = Inbound(path, query).urls
           /\ hdrs = Inbound(path, query).hdrs
    /\ clone = NoClone
    /\ NoStream
    /\ NoFlights
    /\ NoContext
    /\ NoMain

CloneNext ==
    \/ CreateFilter
    \/ Request
    \/ Response
    \/ MutateOrigHeader
    \/ MutateCloneHeader

CloneSpec == CloneInit /\ [][CloneNext]_vars

\* a request with a body, filtered by a tee to ShadowURL
Init ==
    /\ config = <<Str(ShadowURL)>>
    /\ filter = CreateFilterResult(config).filter
    /\ createErr = CreateFilterResult(config).err
    /\ req = Inbound(<<"/", "a">>, <<>>).r
    /\ urls = Inbound(<<"/", "a">>, <<>>).urls
    /\ hdrs = Inbound(<<"/", "a">>, <<>>).hdrs
    /\ clone = NoClone
    /\ src \in SeqsUpTo(Bytes, MaxBody)
    /\ pipe = NoPipe
    /\ pc = "start"
    /\ cur = NoRead
    /\ ret = NoRet
    /\ primaryBytes = <<>>
    /\ written = <<>>
    /\ mirrorBytes = <<>>
    /\ mstate = "none"
    /\ mirrorSaw = "nil"
    /\ NoContext
    /\ NoMain
    /\ NoFlights

Next ==
    \/ Request
    \/ Read
    \/ WriteReturn
    \/ CloseAtEOF
    \/ Close
    \/ MirrorRead
    \/ MirrorClose

Spec == Init /\ [][Next]_vars

\* the two responses handed to the context: one as bare as Go allows, one
\* with a status, a header and a body, as a backend returns it
GivenResponses ==
    <<[status |-> 200, header |-> 0, body |-> "nil", request |-> "nil"],
      [status |-> 500, header |-> 2, body |-> "data", request |-> "nil"]>>

\* an inbound request, its transfer encoding list one of tes, before newContext
ContextInit(tes) ==
    /\ NoFilterRun
    /\ NoStream
    /\ NoFlights
    /\ NoMain
    /\ req = Inbound(<<"/">>, <<>>).r
    /\ urls = Inbound(<<"/">>, <<>>).urls
    /\ hdrs = Inbound(<<"/">>, <<>>).hdrs \o <<[n \in HeaderNames |-> <<"w">>]>>
    /\ clone = NoClone
    /\ ctxs = <<>>
    /\ resps = GivenResponses
    /\ arrays = <<<<"chunked">>>>
    /\ reqTE \in tes
    /\ params = <<>>
    /\ newArgs = NoArgs
    /\ depth = 0

\* the response of a context: served, set, defaulted, its header changed
ServeInit == ContextInit({[arr |-> 1, len |-> 1]})

ServeNext ==
    \/ NewContext
    \/ DoServe
    \/ DoSetResponse
    \/ DoEnsureDefaultResponse
    \/ DoMarkServed
    \/ ApplyBackendRoute
    \/ DoSetResponseHeader

ServeSpec == ServeInit /\ [][ServeNext]_vars

\* route applications, nested by loopback, with filters changing the hosts
RouteInit == ContextInit({[arr |-> 1, len |-> 1]})

RouteNext ==
    \/ NewContext
    \/ DoApplyRoute
    \/ EnterLoopback
    \/ LeaveLoopback
    \/ DoSetOutgoingHost
    \/ SetRequestHost

RouteSpec == RouteInit /\ [][RouteNext]_vars

\* a context and its copy, operated on in any order
CopyInit == ContextInit({[arr |-> 1, len |-> 1]})

CopyNext ==
    \/ NewContext
    \/ ApplyLoopbackRoute
    \/ CloneContext
    \/ CopyMarkServed
    \/ CopyServe
    \/ CopySetResponse
    \/ CopyEnterLoopback
    \/ CopyLeaveLoopback
    \/ CopySetOutgoingHost

CopySpec == CopyInit /\ [][CopyNext]_vars

\* the live request changed by filters after the context is created
SnapshotInit == ContextInit({NoSlice, [arr |-> 1, len |-> 1]})

SnapshotNext ==
    \/ NewContext
    \/ SetRequestHost
    \/ SetRequestHeader
    \/ SetRequestURL
    \/ SetTransferEncoding

SnapshotSpec == SnapshotInit /\ [][SnapshotNext]_vars

\* the filter that rewrites "a" to "b" in the path
ConcConfig == <<Str(ShadowURL), Str(<<"a">>), Str(<<"b">>)>>

\* two requests for /a, each with a URL and a header of its own, the body of
\* the first made of the byte 0 and that of the second of the byte 1
ConcInit ==
    /\ config = ConcConfig
    /\ filter = CreateFilterResult(config).filter
    /\ createErr = CreateFilterResult(config).err
    /\ req = Inbound(<<"/", "a">>, <<>>).r
    /\ urls = Inbound(<<"/", "a">>, <<>>).urls \o Inbound(<<"/", "a">>, <<>>).urls
    /\ hdrs = Inbound(<<"/", "a">>, <<>>).hdrs \o Inbound(<<"/", "a">>, <<>>).hdrs
    /\ clone = NoClone
    /\ NoStream
    /\ NoContext
    /\ NoMain
    /\ pipes = <<>>
    /\ \E first \in {<<0>>, <<0, 0>>}, second \in {<<>>, <<1>>} :
           flights = <<NewFlight(req, first),
                       NewFlight([req EXCEPT !.url = 2, !.header = 2], second)>>

ConcNext ==
    \/ ConcRequest
    \/ ConcResponse
    \/ ConcRead
    \/ ConcWriteReturn
    \/ ConcCloseAtEOF
    \/ ConcMirrorRead
    \/ ConcMirrorClose

ConcSpec == ConcInit /\ [][ConcNext]_vars

\* main with every flag value of up to MaxFlagLen characters
MainInit ==
    /\ NoFilterRun
    /\ NoRequest
    /\ NoStream
    /\ NoFlights
    /\ NoContext
    /\ flag \in SeqsUpTo(FlagChars, MaxFlagLen)
    /\ mainPc = "start"
    /\ clsic = Zero64
    /\ period = Zero64

MainNext == ParseFlag \/ SetOptions

MainSpec == MainInit /\ [][MainNext]_vars

---------------------------------------------------------------------------
(* Properties of the stream tee, under Spec. *)

PrimaryDone == pc \in {"eof", "failed", "closed"}

\* C1: when the primary consumer has read the body through the tee up to
\* end-of-stream and the mirror has not closed its end of the pipe, the bytes
\* the mirror received are exactly the bytes returned to the primary, in the
\* same order; the same holds between any two reads on the way.
C1_MirrorGetsSameBytes ==
    (pc \in {"ready", "eof", "closed"} /\ pipe.rerr = "nil") => mirrorBytes = primaryBytes

C1_Witness ==
    /\ pc = "eof"
    /\ pipe.rerr = "nil"
    /\ mirrorSaw = "EOF"
    /\ Len(primaryBytes) = MaxBody
    /\ primaryBytes[1] # primaryBytes[2]

\* C2: every teeTie.Read returns the count, the bytes and the error of the
\* source's read, also when the write to the pipe failed.
C2_ReadReturnsSourceResult ==
    ret # NoRet => (ret.n = cur.n /\ ret.b = cur.b /\ ret.err = cur.err)

C2_Witness ==
    /\ ret # NoRet
    /\ cur.werr = ErrClosedPipe
    /\ ret.n > 0
    /\ ret.err = "nil"

\* C3: the primary never waits for the mirror: as long as the primary
\* consumer has not finished with the body, tee.Request or a step of
\* teeTie.Read can be taken, whatever the mirror task does or fails to do.
C3_PrimaryNeverWaitsForMirror ==
    PrimaryDone \/ ENABLED (Request \/ PrimaryNext)

\* C4: a teeTie.Read whose source read failed (not end-of-stream) returns that
\* error, has closed the pipe with it, so that the mirror's next read reports
\* it, and has written none of the bytes of the failing read to the pipe.
C4_SourceErrorAbortsPipe ==
    (ret # NoRet /\ cur.err \notin {"nil", "EOF"}) =>
        /\ ret.err = cur.err
        /\ ret.n = cur.n
        /\ pipe.werr = cur.err
        /\ primaryBytes = written \o cur.b
        /\ mirrorSaw \in {"nil", cur.err}
        /\ (mstate = "running" /\ mirrorSaw = "nil") =>
               (pipe.data = <<>> /\ PipeRead(pipe, 1).err = cur.err)

C4_Witness ==
    /\ pc = "failed"
    /\ cur.n > 0
    /\ Len(written) > 0
    /\ mirrorSaw = ErrSrc

\* C5: at end-of-stream the pipe is closed without error, and the mirror
\* sees end-of-stream only when it has received every byte the primary
\* read, the bytes of the final read included.
C5_MirrorSeesEOFAfterAllBytes ==
    /\ pc = "eof" => pipe.werr = "EOF"
    /\ mirrorSaw = "EOF" => (pc = "eof" /\ mirrorBytes = primaryBytes)

C5_Witness ==
    /\ mirrorSaw = "EOF"
    /\ cur.err = "EOF"
    /\ cur.n > 0
    /\ Len(primaryBytes) > cur.n

---------------------------------------------------------------------------
(* Properties of the request clone, under CloneSpec. *)

\* C6: once the clone exists, a change of the original request's header
\* leaves the clone's header as it was, and a change of the clone's header
\* leaves the original's.
C6_HeadersIndependent ==
    [][/\ MutateOrigHeader => HeaderOf(clone)' = HeaderOf(clone)
       /\ MutateCloneHeader => HeaderOf(req)' = HeaderOf(req)]_vars

\* C7: tee.Request changes nothing of the original request but its body:
\* its URL object and that object's fields, its Host, method, RequestURI and
\* header stay; the clone has a URL object of its own with the target's
\* host and scheme, and the target host as its Host.
C7_RequestOnlySubstitutesBody ==
    [][Request =>
        /\ req' = [req EXCEPT !.body = "tee"]
        /\ req.body # "tee"
        /\ urls'[req'.url] = urls[req.url]
        /\ hdrs' = hdrs
        /\ clone'.url # req'.url
        /\ urls'[clone'.url].host = filter.host
        /\ urls'[clone'.url].scheme = filter.scheme
        /\ clone'.host = filter.host]_vars

C7_Witness ==
    /\ clone # NoClone
    /\ req.body = "tee"
    /\ urls[req.url].host = <<>>
    /\ req.host = OrigHost
    /\ urls[clone.url].host = <<"h">>
    /\ urls[clone.url].scheme = <<"h">>
    /\ urls[clone.url].path # urls[req.url].path

\* the pattern of a three-parameter configuration, read off the parameter
PatternAnchored(cfg) == Len(cfg[2].s) > 0 /\ cfg[2].s[1] = "^"
PatternLiteral(cfg) == IF PatternAnchored(cfg) THEN Tail(cfg[2].s) ELSE cfg[2].s

\* 1-based start of the first occurrence of the non-empty lit in s, 0 if none
FirstOccurrence(lit, s) ==
    LET occ == {i \in 1..(Len(s) - Len(lit) + 1) : SubSeq(s, i, i + Len(lit) - 1) = lit}
    IN  IF occ = {} THEN 0 ELSE CHOOSE i \in occ : \A j \in occ : i <= j

\* s with every occurrence of the non-empty lit, left to right, replaced
RECURSIVE EveryOccurrenceReplaced(_, _, _)
EveryOccurrenceReplaced(lit, s, repl) ==
    LET i == FirstOccurrence(lit, s)
    IN  IF i = 0 THEN s
        ELSE SubSeq(s, 1, i - 1) \o repl
             \o EveryOccurrenceReplaced(lit, SubSeq(s, i + Len(lit), Len(s)), repl)

\* the empty pattern matches before every character and at the end
RECURSIVE ReplacedAtEveryPosition(_, _)
ReplacedAtEveryPosition(s, repl) ==
    IF s = <<>> THEN repl ELSE repl \o <<Head(s)>> \o ReplacedAtEveryPosition(Tail(s), repl)

PathMatches(cfg, path) ==
    IF PatternAnchored(cfg) THEN HasPrefix(path, PatternLiteral(cfg))
    ELSE PatternLiteral(cfg) = <<>> \/ FirstOccurrence(PatternLiteral(cfg), path) # 0

ExpectedPath(cfg, path) ==
    LET lit == PatternLiteral(cfg)
        repl == cfg[3].s
    IN  IF PatternAnchored(cfg) THEN
            IF HasPrefix(path, lit)
            THEN repl \o SubSeq(path, Len(lit) + 1, Len(path)) ELSE path
        ELSE IF lit = <<>> THEN ReplacedAtEveryPosition(path, repl)
        ELSE EveryOccurrenceReplaced(lit, path, repl)

\* C10: the clone's path is the original's with every match of the pattern
\* replaced when the filter was built from three parameters, the original's
\* unchanged when nothing matches or the filter was built from the base URL
\* alone; the clone's query is the original's.
C10_PathRewrittenEverywhere ==
    clone # NoClone =>
        LET path == urls[req.url].path
            clonePath == urls[clone.url].path
        IN  /\ urls[clone.url].query = urls[req.url].query
            /\ Len(config) = 1 => clonePath = path
            /\ Len(config) = 3 => clonePath = ExpectedPath(config, path)
            /\ (Len(config) = 3 /\ ~PathMatches(config, path)) => clonePath = path

C10_Witness ==
    /\ clone # NoClone
    /\ Len(config) = 3
    /\ config[2] = Str(<<"a">>)
    /\ config[3] = Str(<<"b">>)
    /\ urls[req.url].path = <<"/", "a", "/", "a">>
    /\ urls[clone.url].path = <<"/", "b", "/", "b">>
    /\ urls[clone.url].query = <<"?", "b">>

---------------------------------------------------------------------------
(* Properties of CreateFilter, under CreateSpec. *)

Created == filter # NoFilter \/ createErr # "nil"

ValidConfig(cfg) ==
    \/ /\ Len(cfg) = 1
       /\ cfg[1].isString
       /\ ParseURL(cfg[1].s).err = "nil"
    \/ /\ Len(cfg) = 3
       /\ \A i \in 1..3 : cfg[i].isString
       /\ ParseURL(cfg[1].s).err = "nil"
       /\ Compile(cfg[2].s).err = "nil"

\* C8: CreateFilter returns a filter and no error exactly for one string that
\* parses as a URL, or three strings of which the first parses as a URL and
\* the second compiles; for everything else it returns an error and no filter.
C8_CreatedIffValidConfig ==
    Created =>
        /\ createErr = "nil" <=> ValidConfig(config)
        /\ createErr = "nil" <=> filter # NoFilter
        /\ filter # NoFilter =>
               filter.typ = (IF Len(config) = 1 THEN asBackend ELSE pathModified)

C8_Witness ==
    /\ createErr = "nil"
    /\ Len(config) = 3
    /\ filter.typ = pathModified
    /\ filter.rx.anchored
    /\ filter.host = <<"h">>

\* C9: every filter CreateFilter returns has a target host and a target
\* scheme that are not empty.
C9_TargetHasSchemeAndHost ==
    (createErr = "nil" /\ filter # NoFilter) =>
        (filter.host # <<>> /\ filter.scheme # <<>>)

---------------------------------------------------------------------------
(* Properties of the response of a context, under ServeSpec. *)

\* C11: once Serve has been called on a context, no step replaces the live
\* response by another object: Response() stays the served object.
C11_ServedResponseStays ==
    [][\A i \in Contexts : shunted(i) => ctxs'[i].response = contextResponse(i)]_vars

\* C12: a step Serve(r) leaves Served() and shunted() true and Response()
\* the object r, r pointing back at the context's request, with a header and
\* a body: those it came with, or empty ones if it came with none; and a
\* later ensureDefaultResponse keeps the response of a context that served.
C12_ServeInstallsResponse ==
    [][\A i \in Contexts :
          /\ \A r \in Given :
                 Serve(i, r) =>
                     /\ ctxs'[i].servedWithResponse
                     /\ ctxs'[i].deprecatedServed \/ ctxs'[i].servedWithResponse
                     /\ ctxs'[i].response = r
                     /\ resps'[r].request = "req"
                     /\ resps'[r].status = resps[r].status
                     /\ resps'[r].header # 0
                     /\ resps'[r].body # "nil"
                     /\ IF resps[r].header = 0
                        THEN hdrs'[resps'[r].header] = EmptyHeader
                        ELSE /\ resps'[r].header = resps[r].header
                             /\ hdrs'[resps[r].header] = hdrs[resps[r].header]
                     /\ resps'[r].body = IF resps[r].body = "nil" THEN "empty"
                                         ELSE resps[r].body
          /\ (shunted(i) /\ ensureDefaultResponse(i)) =>
                 /\ ctxs'[i].response = contextResponse(i)
                 /\ resps'[contextResponse(i)].status = resps[contextResponse(i)].status
      ]_vars

\* Serve has acted on the response that came without header and body
C12_Witness ==
    /\ Len(ctxs) = 1
    /\ shunted(1)
    /\ contextResponse(1) = 1
    /\ resps[1].request = "req"
    /\ resps[1].header # 0
    /\ resps[1].body = "empty"

\* C13: a step ensureDefaultResponse leaves a live response with a header and
\* a body; with no response before, it is a new one with status 404, an empty
\* header and an empty body; with a response before, it is that object, its
\* status, and the header and body it had, as they were.
C13_EnsureDefaultResponse ==
    [][\A i \in Contexts :
          ensureDefaultResponse(i) =>
              LET old == ctxs[i].response
                  new == ctxs'[i].response
              IN  /\ new # 0
                  /\ resps'[new].header # 0
                  /\ resps'[new].body # "nil"
                  /\ old = 0 =>
                         /\ new \notin DOMAIN resps
                         /\ resps'[new].status = StatusNotFound
                         /\ hdrs'[resps'[new].header] = EmptyHeader
                         /\ resps'[new].body = "empty"
                  /\ old # 0 =>
                         /\ new = old
                         /\ resps'[old].status = resps[old].status
                         /\ resps[old].header # 0 =>
                                /\ resps'[old].header = resps[old].header
                                /\ hdrs'[resps[old].header] = hdrs[resps[old].header]
                         /\ resps[old].body # "nil" => resps'[old].body = resps[old].body
                         /\ resps[old].header = 0 => resps'[old].header # 0
      ]_vars

\* the default response is the live one, beside the two given
C13_Witness ==
    /\ Len(ctxs) = 1
    /\ contextResponse(1) = 3
    /\ resps[3].status = StatusNotFound
    /\ hdrs[resps[3].header] = EmptyHeader
    /\ resps[3].body = "empty"
    /\ ~Served(1)

\* C19: Served() never turns from true to false; it is true exactly when
\* deprecatedShunted() or shunted() is; MarkServed leaves shunted() and the
\* live response alone, and Serve leaves deprecatedShunted() alone.
C19_FlagsPermanentAndApart ==
    [][\A i \in Contexts :
          /\ Served(i) <=> (deprecatedShunted(i) \/ shunted(i))
          /\ Served(i) => (ctxs'[i].deprecatedServed \/ ctxs'[i].servedWithResponse)
          /\ deprecatedShunted(i) => ctxs'[i].deprecatedServed
          /\ shunted(i) => ctxs'[i].servedWithResponse
          /\ MarkServed(i) =>
                 /\ ctxs'[i].deprecatedServed
                 /\ ctxs'[i].servedWithResponse = shunted(i)
                 /\ ctxs'[i].response = contextResponse(i)
                 /\ resps' = resps
          /\ \A r \in Given :
                 Serve(i, r) => ctxs'[i].deprecatedServed = deprecatedShunted(i)
      ]_vars

\* a context marked served by MarkServed alone, with a response set after it
C19_Witness ==
    /\ Len(ctxs) = 1
    /\ deprecatedShunted(1)
    /\ ~shunted(1)
    /\ contextResponse(1) = 2

\* what OriginalResponse() of context i shows: the object and its header
OriginalResponseView(i) ==
    IF OriginalResponse(i) = 0 THEN <<0>>
    ELSE <<OriginalResponse(i), resps[OriginalResponse(i)],
           IF resps[OriginalResponse(i)].header = 0 THEN <<>>
           ELSE hdrs[resps[OriginalResponse(i)].header]>>

\* what OriginalRequest() of context i shows: its fields, URL, header and
\* transfer encoding list
OriginalRequestView(i) ==
    IF OriginalRequest(i) = NoSnapshot THEN <<>>
    ELSE <<OriginalRequest(i), urls[OriginalRequest(i).url],
           hdrs[OriginalRequest(i).header],
           IF OriginalRequest(i).te.arr = 0 THEN <<>>
           ELSE SubSeq(arrays[OriginalRequest(i).te.arr], 1, OriginalRequest(i).te.len)>>

SnapshotsAsCreated ==
    \A i \in Contexts : (OriginalRequest(i) # NoSnapshot) <=> newArgs.preserveOriginal

\* C20: OriginalRequest() is there exactly for a context created with
\* preserveOriginal and no step changes what it shows; what OriginalResponse()
\* shows changes only in a step setResponse with preserveOriginal: not in
\* Serve, MarkServed, applyRoute, ensureDefaultResponse, nor when the header
\* of the live response is written.
C20_SnapshotsWriteOnce ==
    [][/\ SnapshotsAsCreated
       /\ SnapshotsAsCreated'
       /\ \A i \in Contexts :
              /\ OriginalRequestView(i)' = OriginalRequestView(i)
              /\ OriginalResponseView(i)' # OriginalResponseView(i) =>
                     \E r \in Given : setResponse(i, r, TRUE)
      ]_vars

\* a snapshot of the second given response, whose header was written since
C20_Witness ==
    /\ Len(ctxs) = 1
    /\ newArgs.preserveOriginal
    /\ OriginalResponse(1) = 3
    /\ resps[3].status = 500
    /\ hdrs[resps[3].header] = [n \in HeaderNames |-> <<"w">>]
    /\ contextResponse(1) = 2
    /\ hdrs[resps[2].header] = [n \in HeaderNames |-> <<"v">>]
    /\ shunted(1)

---------------------------------------------------------------------------
(* Properties of route application, under RouteSpec. *)

\* C14: with every entry of a loopback application calling incLoopCounter and
\* every exit decLoopCounter, the loop counter is its starting value, 0, plus
\* the nesting depth: 0 again at the top level, and never negative.
C14_LoopCounterIsDepth ==
    \A i \in Contexts :
        /\ ctxs[i].loopCounter = depth
        /\ ctxs[i].loopCounter >= 0
        /\ depth = 0 => ctxs[i].loopCounter = 0

\* two loopback applications entered, the loopback route applied
C14_Witness ==
    /\ Len(ctxs) = 1
    /\ depth = 2
    /\ ctxs[1].loopCounter = 2
    /\ ctxs[1].route.id = 2

\* C15: a step applyRoute leaves PathParam(k) the value its parameters give
\* for k, and what it was for a key they do not hold; no other step changes
\* PathParam(k), which is "" on a new context.
C15_PathParamsAccumulate ==
    [][/\ (ctxs = <<>> /\ ctxs' # <<>>) =>
              \A k \in ParamKeys : PathParam(1, k)' = ""
       /\ \A i \in Contexts, k \in ParamKeys :
              /\ \A route \in Routes, ps \in ParamMaps, preserveHost \in BOOLEAN :
                     applyRoute(i, route, ps, preserveHost) =>
                         PathParam(i, k)' = IF k \in DOMAIN ps THEN ps[k]
                                            ELSE PathParam(i, k)
              /\ PathParam(i, k)' # PathParam(i, k) =>
                     \E route \in Routes, ps \in ParamMaps, preserveHost \in BOOLEAN :
                         /\ applyRoute(i, route, ps, preserveHost)
                         /\ k \in DOMAIN ps
      ]_vars

\* both keys set, by route applications of which the loopback one was last
C15_Witness ==
    /\ Len(ctxs) = 1
    /\ PathParam(1, "k") = "2"
    /\ PathParam(1, "l") = "1"
    /\ ctxs[1].route.id = 2

\* C16: newContext leaves the outgoing host the host of the inbound request;
\* a step applyRoute leaves it that host, the one the request came with, when
\* preserveHost is set, and the host of the route otherwise.
C16_OutgoingHostFollowsRoute ==
    [][/\ (ctxs = <<>> /\ ctxs' # <<>>) => OutgoingHost(1)' = req.host
       /\ \A i \in Contexts, route \in Routes, ps \in ParamMaps, preserveHost \in BOOLEAN :
              applyRoute(i, route, ps, preserveHost) =>
                  OutgoingHost(i)' = IF preserveHost THEN newArgs.host ELSE route.host
      ]_vars

---------------------------------------------------------------------------
(* Properties of the request snapshot, under SnapshotSpec. *)

\* C17: for a context created with preserveOriginal, no step, whatever it
\* writes to the live request (header, URL, transfer encoding list, host),
\* changes what OriginalRequest() shows.
C17_SnapshotApartFromRequest ==
    [][\A i \in Contexts :
          newArgs.preserveOriginal => OriginalRequestView(i)' = OriginalRequestView(i)
      ]_vars

---------------------------------------------------------------------------
(* Properties of the flag handling of main, under MainSpec. *)

\* the flag is an integer: an optional "-" and digits
IsInteger(s) ==
    /\ s # <<>>
    /\ LET t == IF Head(s) = "-" THEN Tail(s) ELSE s
       IN  t # <<>> /\ DigitsAhead(t) = Len(t)

\* n seconds in nanoseconds, for the integer the flag writes
IntegerSeconds(s) ==
    IF Head(s) = "-" THEN Neg64(Mul64(FromNat(DecimalValue(Tail(s))), Second))
    ELSE Mul64(FromNat(DecimalValue(s)), Second)

\* C18: the period main hands to the proxy is the value of the flag: n
\* seconds for an integer n, the duration for a duration string, and less
\* than 0 exactly when the flag's value is.
C18_PeriodIsFlagValue ==
    mainPc = "options" =>
        /\ period = clsic
        /\ IsInteger(flag) => period = IntegerSeconds(flag)
        /\ IsNegative(period) <=> IsNegative(clsic)

---------------------------------------------------------------------------
(* The end of the mirror's body, under Spec. *)

\* C22: once the primary is done with the substituted body (end-of-stream
\* read, a source error, or Close before end-of-stream), the pipe is closed
\* by its writer, so that a read of the mirror returns end-of-stream or an
\* error and does not wait.
C22_MirrorBodyEnds ==
    PrimaryDone =>
        /\ pipe.werr # "nil"
        /\ (mstate = "running" /\ mirrorSaw = "nil") => PipeReadReturns(pipe)

---------------------------------------------------------------------------
(* Properties of a context and its copy, under CopySpec. *)

\* what the accessors of context i return
ContextView(i) ==
    <<Served(i), contextResponse(i), ctxs[i].loopCounter, ctxs[i].route,
      OutgoingHost(i), [k \in ParamKeys |-> PathParam(i, k)]>>

\* the step is an operation on context j
OperationOn(j) ==
    \/ MarkServed(j)
    \/ \E r \in Given : Serve(j, r)
    \/ \E r \in Given, preserveOriginal \in BOOLEAN : setResponse(j, r, preserveOriginal)
    \/ IncLoopCounter(j)
    \/ DecLoopCounter(j)
    \/ \E h \in Hosts : SetOutgoingHost(j, h)
    \/ \E route \in Routes, ps \in ParamMaps, preserveHost \in BOOLEAN :
           applyRoute(j, route, ps, preserveHost)

\* C23: after clone(), an operation on one of the two contexts leaves what
\* the other returns as it was: Served(), Response(), the loop counter, the
\* route, OutgoingHost() and PathParam(k) for every k.
C23_CopyApartFromOriginal ==
    [][\A i \in Contexts, j \in Contexts :
          (i # j /\ OperationOn(j)) => ContextView(i)' = ContextView(i)
      ]_vars

---------------------------------------------------------------------------
(* Properties of requests passing the filter at the same time, under ConcSpec. *)

\* the step is one of request j or of its mirror task
FlightStep(j) ==
    \/ FlightRequest(j)
    \/ FlightRead(j)
    \/ FlightWriteReturn(j)
    \/ FlightCloseAtEOF(j)
    \/ FlightMirrorRead(j)
    \/ FlightMirrorClose(j)

\* every request that passed tee.Request has a pipe and a clone of its own, and
\* its mirror has got bytes of its own body only, in their order
FlightsApart ==
    \A k \in Flights :
        /\ HasPrefix(flights[k].bytes, flights[k].mirrorBytes)
        /\ flights[k].clone # NoClone =>
               /\ flights[k].w = flights[k].pr
               /\ flights[k].clone.url # flights[k].req.url
               /\ \A j \in Flights \ {k} :
                      flights[j].clone # NoClone =>
                          /\ flights[j].w # flights[k].w
                          /\ flights[j].clone.url # flights[k].clone.url
                          /\ flights[j].req.url # flights[k].clone.url

\* C21: no step of a request changes the filter; every request gets a pipe and
\* a clone of its own in tee.Request; a step of one request leaves the other
\* request, its clone and its pipe as they were, so that a mirror gets the
\* bytes of its own request only; tee.Response changes nothing.
C21_RequestsIsolated ==
    [][/\ filter' = filter
       /\ FlightsApart'
       /\ \A k \in Flights :
              /\ FlightResponse(k) => vars' = vars
              /\ \A j \in Flights \ {k} :
                     FlightStep(j) =>
                         /\ flights'[k] = flights[k]
                         /\ flights[k].w # 0 =>
                                pipes'[flights[k].w] = pipes[flights[k].w]
                         /\ flights[k].clone # NoClone =>
                                /\ urls'[flights[k].clone.url] = urls[flights[k].clone.url]
                                /\ urls'[flights[k].req.url] = urls[flights[k].req.url]
      ]_vars

\* both bodies read to their end by the primaries and by the mirrors
C21_Witness ==
    /\ Len(flights) = 2
    /\ flights[1].mirrorBytes = <<0, 0>>
    /\ flights[2].mirrorBytes = <<1>>
    /\ flights[1].mirrorSaw = "EOF"
    /\ flights[2].mirrorSaw = "EOF"
    /\ flights[1].primaryBytes = <<0, 0>>
    /\ flights[2].primaryBytes = <<1>>
    /\ urls[flights[1].clone.url].path = <<"/", "b">>
    /\ urls[flights[2].clone.url].host = <<"h">>

====
